---- MODULE Spec2Model ----
(***************************************************************************)
(* FluxCam (src/Flux_Cam.py): a Qt window (WebcamController, the UI        *)
(* thread) driving one capture worker (VideoThread, a QThread) and a set   *)
(* of v4l2 controls read and written through the v4l2-ctl command.         *)
(*                                                                         *)
(* The worker is modelled statement by statement wherever it reads or      *)
(* writes a field the UI thread also touches (device, running, mirror,     *)
(* flip, rotate, effect); wpc is the line of run() it is about to execute. *)
(* The UI thread runs one handler at a time; upc says which handler it is  *)
(* in the middle of (it only ever stops inside QThread.wait()).            *)
(***************************************************************************)
EXTENDS Integers, Sequences, FiniteSets

\* ---------------------------------------------------------------- bounds
\* Number of /dev/video* nodes the enumeration can report.
NumDevices == 2
\* Largest magnitude of a number printed in a control line.
MaxMag == 2

\* ------------------------------------------------------- optional values
\* Python's None is the empty sequence, a value x is <<x>>.
None == << >>
Some(x) == <<x>>

\* ------------------------------------------------------------ VARIABLES
VARIABLES
    \* VideoThread fields
    device,          \* self.device: None or <<device number>>
    running,         \* self.running
    mirror,          \* self.mirror
    flip,            \* self.flip
    rotate,          \* self.rotate
    effect,          \* self.effect
    \* VideoThread.run locals and the QThread itself
    wpc,             \* line of run() about to execute; "idle": no run in progress
    cap,             \* the cv2.VideoCapture handle: None or <<device number opened>>
    ret,             \* the flag cap.read() returned last: None or <<flag>>
    frame,           \* the operations applied so far to the frame in hand
    echk,            \* position in apply_effect's if/elif chain (0 outside it)
    unemitted,       \* frames read successfully and not yet emitted
    sink,            \* last image handed to change_pixmap: None or <<[copy]>>
    everStarted,     \* start() has been called at least once
    heldNone,        \* history: self.effect was 'none' at some moment since the
                     \* loop test that began the iteration in progress
    \* WebcamController fields
    current_device,  \* self.current_device: None or <<path>>
    controls,        \* self.controls with each slider's state
    camera_combo,    \* items of self.camera_combo
    combo_index,     \* current index of the combo (0: empty)
    listing,         \* stdout of the last v4l2-ctl --list-ctrls
    lastCall,        \* device-facing call of the last control event: None or <<call>>
    uiError,         \* an exception escaped a slot
    enumerated,      \* what detect_cameras found: "pending", "failed", "none", "some"
    \* UI thread position and last event
    upc,
    uiEvent,
    tick

threadVars == <<device, running, mirror, flip, rotate, effect>>
workerVars == <<wpc, cap, ret, frame, echk, unemitted, sink>>
ctlVars == <<controls, listing, lastCall, uiError>>
camVars == <<current_device, camera_combo, combo_index, enumerated>>
vars == <<device, running, mirror, flip, rotate, effect, wpc, cap, ret, frame, echk,
          unemitted, sink, everStarted, current_device, controls, camera_combo,
          combo_index, listing, lastCall, uiError, enumerated, upc, uiEvent, tick,
         heldNone>>

\* ------------------------------------------------------------- devices
DeviceNums == 0 .. (NumDevices - 1)
\* The path of a device node, "/dev/video<n>".
DevicePath(n) == <<"/dev/video", n>>
\* set_device: int(device.replace('/dev/video', ''))
DeviceNumOf(path) == path[2]

\* ---------------------------------------------------- control-line text
\* A line of v4l2-ctl --list-ctrls is a sequence of tokens. A number is kept as
\* printed: a sign and digits.
Tok(k, s) == [k |-> k, s |-> s, neg |-> FALSE, mag |-> 0]
NumTok(k, num) == [k |-> k, s |-> "", neg |-> num.neg, mag |-> num.mag]
Nums == [neg : BOOLEAN, mag : 0 .. MaxMag]
Num(n) == [neg |-> n < 0, mag |-> IF n < 0 THEN -n ELSE n]
\* int(text)
IntOf(t) == IF t.neg THEN -t.mag ELSE t.mag

FlagToks(inactive, payload) ==
    (IF inactive THEN <<Tok("flags", "inactive")>> ELSE << >>) \o
    (IF payload THEN <<Tok("flags", "has-payload")>> ELSE << >>)

\* "<name> 0x... (<type>) : min= max= [step=] default= value= [flags=]"
RangeLine(name, type, mn, mx, step, df, val, inactive, payload) ==
    <<Tok("name", name), Tok("hex", ""), Tok("type", type), Tok("colon", ""),
      NumTok("min", mn), NumTok("max", mx)>> \o
    (IF step THEN <<NumTok("step", Num(1))>> ELSE << >>) \o
    <<NumTok("default", df), NumTok("value", val)>> \o FlagToks(inactive, payload)

\* "<name> 0x... (<type>) : default= value= [flags=]"
ShortLine(name, type, df, val, inactive, payload) ==
    <<Tok("name", name), Tok("hex", ""), Tok("type", type), Tok("colon", ""),
      NumTok("default", df), NumTok("value", val)>> \o FlagToks(inactive, payload)

HeaderLine(text) == <<Tok("text", text)>>
BlankLine == << >>

\* ------------------------------------------------ parse_and_create_controls
HasMarker(line, marker) == \E i \in 1 .. Len(line) : line[i].k = "flags" /\ line[i].s = marker
IsInactive(line) == HasMarker(line, "inactive")
HasPayload(line) == HasMarker(line, "has-payload")
HasBoolType(line) == \E i \in 1 .. Len(line) : line[i].k = "type" /\ line[i].s = "bool"

\* line 517: blank lines and the two section headers are skipped
IsSkippedLine(line) ==
    \/ line = BlankLine
    \/ \E i \in 1 .. Len(line) :
          line[i].k = "text" /\ line[i].s \in {"User Controls", "Camera Controls"}

\* The positions j at which "default=<int> value=<int>" can match after max=.
DefaultPositions(line) ==
    {j \in 7 .. (Len(line) - 1) : line[j].k = "default" /\ line[j + 1].k = "value"}

\* line 521: name, hex id, (type), ':', min=, max=, anything, default=, value=
RangeMatch(line) ==
    /\ Len(line) >= 8
    /\ line[1].k = "name" /\ line[2].k = "hex" /\ line[3].k = "type" /\ line[4].k = "colon"
    /\ line[5].k = "min" /\ line[6].k = "max"
    /\ DefaultPositions(line) # {}

\* ".*" is greedy: the last "default= value=" pair is the one captured.
RangeGroups(line) ==
    LET j == CHOOSE p \in DefaultPositions(line) : \A q \in DefaultPositions(line) : q <= p
    IN [name |-> line[1].s, ctrl_type |-> line[3].s,
        min_val |-> line[5], max_val |-> line[6],
        default_val |-> line[j], current_val |-> line[j + 1]]

\* line 537: name, hex id, (bool), ':', default=<digits>, value=<digits>; \d+ takes no sign
BoolMatch(line) ==
    /\ Len(line) >= 6
    /\ line[1].k = "name" /\ line[2].k = "hex"
    /\ line[3].k = "type" /\ line[3].s = "bool" /\ line[4].k = "colon"
    /\ line[5].k = "default" /\ ~line[5].neg
    /\ line[6].k = "value" /\ ~line[6].neg

\* ---------------------------------------------------------------- QSlider
\* A new QSlider has the range [0, 99] and the value 0; every setter keeps
\* minimum <= value <= maximum.
Clamp(v, lo, hi) == IF v < lo THEN lo ELSE IF v > hi THEN hi ELSE v
NewSlider == [min |-> 0, max |-> 99, value |-> 0]
SetRange(s, lo, hi) ==
    LET h == IF hi < lo THEN lo ELSE hi
    IN [min |-> lo, max |-> h, value |-> Clamp(s.value, lo, h)]
SetMinimum(s, m) == SetRange(s, m, IF s.max < m THEN m ELSE s.max)
SetMaximum(s, m) == SetRange(s, IF s.min > m THEN m ELSE s.min, m)
SetValue(s, v) == [s EXCEPT !.value = Clamp(v, s.min, s.max)]

\* create_slider_control: the slider after lines 594-597, the label text of line
\* 561 and the default kept by the reset button and self.controls (lines 629, 635).
CreateSliderControl(name, min_val, max_val, current_val, default_val) ==
    LET slider == SetValue(SetMaximum(SetMinimum(NewSlider, min_val), max_val), current_val)
    IN [name |-> name, min |-> slider.min, max |-> slider.max, value |-> slider.value,
        default |-> default_val, label |-> current_val]

\* Lines 521-540 for one line: the controls it creates, as a sequence of 0 or 1.
ParseLine(line) ==
    IF IsSkippedLine(line) THEN << >>
    ELSE IF RangeMatch(line)
    THEN LET g == RangeGroups(line)
         IN IF g.ctrl_type = "int" /\ ~IsInactive(line) /\ ~HasPayload(line)
            THEN <<CreateSliderControl(g.name, IntOf(g.min_val), IntOf(g.max_val),
                                      IntOf(g.current_val), IntOf(g.default_val))>>
            ELSE << >>
    ELSE IF HasBoolType(line) /\ ~IsInactive(line) /\ BoolMatch(line)
    THEN <<CreateSliderControl(line[1].s, 0, 1, IntOf(line[6]), IntOf(line[5]))>>
    ELSE << >>

\* self.controls[name] = ... : a later control of the same name replaces the earlier
PutControl(ctls, c) ==
    [n \in (DOMAIN ctls) \cup {c.name} |-> IF n = c.name THEN c ELSE ctls[n]]

RECURSIVE ParseLines(_, _)
ParseLines(lines, ctls) ==
    IF lines = << >> THEN ctls
    ELSE LET made == ParseLine(Head(lines))
         IN ParseLines(Tail(lines), IF made = << >> THEN ctls ELSE PutControl(ctls, made[1]))

NoControls == [n \in {} |-> 0]
\* parse_and_create_controls(output), after load_controls cleared self.controls
ParseAndCreateControls(output) == ParseLines(output, NoControls)

\* ------------------------------------------------------- external inputs
\* What v4l2-ctl --list-ctrls can print for a device of the application runs
\* (an empty output also stands for a failed or timed-out query: load_controls
\* then leaves self.controls empty).
ListCtrlsOutputs ==
    { << >>,
      <<HeaderLine("User Controls"),
        RangeLine("brightness", "int", Num(0), Num(2), TRUE, Num(1), Num(0), FALSE, FALSE),
        ShortLine("white_balance_automatic", "bool", Num(1), Num(0), FALSE, FALSE)>>,
      <<RangeLine("gain", "int", Num(0), Num(1), TRUE, Num(0), Num(1), FALSE, FALSE),
        RangeLine("exposure", "int", Num(0), Num(2), TRUE, Num(1), Num(1), TRUE, FALSE)>> }

\* How a v4l2-ctl --set-ctrl call can end: exit (any status), TimeoutExpired,
\* any other exception (for instance the command is missing).
SetCtrlOutcomes == {"exited", "timeout", "error"}

\* ----------------------------------------------------------------- effects
\* The order in which apply_effect compares self.effect (lines 81-119).
EffectOrder == <<"none", "blur", "edge", "cartoon", "sepia", "negative",
                 "grayscale", "emboss", "sharpen">>
Effects == {EffectOrder[i] : i \in 1 .. Len(EffectOrder)}
\* The entries of the effects combo box.
EffectNames == {"None", "Blur", "Edge Detection", "Cartoon", "Sepia", "Negative",
                "Grayscale", "Emboss", "Sharpen"}
\* change_effect's effect_map, with its default 'none'
EffectMap(effect_name) ==
    CASE effect_name = "None" -> "none"
      [] effect_name = "Blur" -> "blur"
      [] effect_name = "Edge Detection" -> "edge"
      [] effect_name = "Cartoon" -> "cartoon"
      [] effect_name = "Sepia" -> "sepia"
      [] effect_name = "Negative" -> "negative"
      [] effect_name = "Grayscale" -> "grayscale"
      [] effect_name = "Emboss" -> "emboss"
      [] effect_name = "Sharpen" -> "sharpen"
      [] OTHER -> "none"

\* -------------------------------------------------------------------- Init
\* WebcamController.__init__ up to (not including) detect_cameras, with the
\* VideoThread as VideoThread.__init__ leaves it.
Init ==
    /\ device = None /\ running = FALSE
    /\ mirror = FALSE /\ flip = FALSE /\ rotate = 0 /\ effect = "none"
    /\ wpc = "idle" /\ cap = None /\ ret = None /\ frame = << >> /\ echk = 0
    /\ unemitted = 0 /\ sink = None /\ everStarted = FALSE /\ heldNone = FALSE
    /\ current_device = None /\ controls = NoControls
    /\ camera_combo = << >> /\ combo_index = 0
    /\ listing = << >> /\ lastCall = None /\ uiError = FALSE
    /\ enumerated = "pending"
    /\ upc = "init" /\ uiEvent = [op |-> "init", ctl |-> ""] /\ tick = FALSE

\* ----------------------------------------------------------- QThread
\* A wait() that returns only for a thread that has run.
ThreadFinishedOnceStarted == wpc = "idle" /\ everStarted

\* QThread.wait() returns once no run() is in progress: at once for a thread
\* that finished or was never started.
ThreadFinished == wpc = "idle"

\* QThread.start(): begins run() on the worker; does nothing while a run is in
\* progress.
ThreadStart ==
    /\ everStarted' = TRUE
    /\ wpc' = IF wpc = "idle" THEN "l38" ELSE wpc

\* ------------------------------------------------------- UI: camera choice
UiEvent(op, ctl) == uiEvent' = [op |-> op, ctl |-> ctl] /\ tick' = ~tick

\* load_controls: clear, query, parse
LoadControls ==
    \E out \in ListCtrlsOutputs :
        /\ listing' = out
        /\ controls' = ParseAndCreateControls(out)

\* change_camera without its early return.
ChangeCameraUnguarded(data) ==
    /\ current_device' = data
    /\ LoadControls
    /\ upc' = "start_camera"

\* change_camera with data = camera_combo.currentData()
ChangeCamera(data) ==
    IF data = None \/ data = current_device
    THEN /\ upc' = "idle"
         /\ UNCHANGED <<current_device, controls, listing>>
    ELSE /\ current_device' = data
         /\ LoadControls
         /\ upc' = "start_camera"

RECURSIVE AscendingSeq(_)
AscendingSeq(S) ==
    IF S = {} THEN << >>
    ELSE LET m == CHOOSE x \in S : \A y \in S : x <= y
         IN <<m>> \o AscendingSeq(S \ {m})

DeviceItem(n) == [kind |-> "device", data |-> Some(DevicePath(n))]
PlaceholderItem(kind) == [kind |-> kind, data |-> None]

\* detect_cameras. The combo's currentTextChanged is connected (line 213) before
\* it runs, so adding the first item calls change_camera for it.
DetectCameras ==
    /\ upc = "init"
    /\ \E failed \in BOOLEAN, found \in SUBSET DeviceNums :
          /\ failed => found = {}
          /\ enumerated' = IF failed THEN "failed" ELSE IF found = {} THEN "none" ELSE "some"
          /\ camera_combo' =
                IF failed THEN <<PlaceholderItem("Error detecting cameras")>>
                ELSE IF found = {} THEN <<PlaceholderItem("No cameras detected")>>
                ELSE [i \in 1 .. Cardinality(found) |-> DeviceItem(AscendingSeq(found)[i])]
    /\ combo_index' = 1
    /\ ChangeCamera(camera_combo'[1].data)
    /\ UiEvent("detect_cameras", "")
    /\ UNCHANGED <<threadVars, workerVars, everStarted, lastCall, uiError>>
    /\ UNCHANGED heldNone

\* detect_cameras where /dev/video0 is the only camera and its control query
\* prints nothing.
DetectOneCamera ==
    /\ DetectCameras
    /\ camera_combo' = <<DeviceItem(0)>>
    /\ listing' = << >>

\* The user picks another entry of the camera combo: currentTextChanged fires
\* only when the entry changes.
SelectCamera ==
    /\ upc = "idle"
    /\ \E i \in 1 .. Len(camera_combo) :
          /\ i # combo_index
          /\ combo_index' = i
          /\ ChangeCamera(camera_combo[i].data)
    /\ UiEvent("change_camera", "")
    /\ UNCHANGED <<threadVars, workerVars, everStarted, camera_combo, enumerated,
                   lastCall, uiError>>
    /\ UNCHANGED heldNone

\* set_device(self.current_device) and start(), lines 444-445
SetDeviceAndStart ==
    /\ device' = Some(DeviceNumOf(current_device[1]))
    /\ ThreadStart

\* start_camera up to the wait inside stop(), or to its end when not running
StartCamera ==
    /\ upc = "start_camera"
    /\ IF running
       THEN /\ running' = FALSE
            /\ upc' = "switch_wait"
            /\ UNCHANGED <<device, wpc, everStarted>>
       ELSE /\ SetDeviceAndStart
            /\ upc' = "idle"
            /\ UNCHANGED running
    /\ UNCHANGED <<mirror, flip, rotate, effect, cap, ret, frame, echk, unemitted, sink,
                   camVars, ctlVars, uiEvent, tick>>
    /\ UNCHANGED heldNone

\* start_camera from the return of stop() to its end
StartCameraAfterStop ==
    /\ upc = "switch_wait"
    /\ ThreadFinished
    /\ SetDeviceAndStart
    /\ upc' = "idle"
    /\ UNCHANGED <<running, mirror, flip, rotate, effect, cap, ret, frame, echk,
                   unemitted, sink, camVars, ctlVars, uiEvent, tick>>
    /\ UNCHANGED heldNone

\* closeEvent up to the wait inside stop(), or to event.accept()
CloseEvent ==
    /\ upc = "idle"
    /\ IF running
       THEN running' = FALSE /\ upc' = "close_wait"
       ELSE upc' = "closed" /\ UNCHANGED running
    /\ UiEvent("closeEvent", "")
    /\ UNCHANGED <<device, mirror, flip, rotate, effect, workerVars, everStarted,
                   camVars, ctlVars>>
    /\ UNCHANGED heldNone

\* closeEvent from the return of stop() to event.accept()
CloseEventAfterStop ==
    /\ upc = "close_wait"
    /\ ThreadFinished
    /\ upc' = "closed"
    /\ UNCHANGED <<threadVars, workerVars, everStarted, camVars, ctlVars, uiEvent, tick>>
    /\ UNCHANGED heldNone

\* ------------------------------------------------------------ UI: controls
\* update_control letting any failure other than a timeout reach the slot's caller.
UpdateControlRaising(control_name, value, ctls) ==
    /\ controls' = [ctls EXCEPT ![control_name].label = value]
    /\ \E outcome \in SetCtrlOutcomes :
          /\ lastCall' = Some([device |-> current_device[1], name |-> control_name,
                                value |-> value, outcome |-> outcome])
          /\ uiError' = (outcome = "error")

\* update_control(control_name, value, label), called by the slider's
\* valueChanged; ctls is self.controls with the slider already at value.
UpdateControl(control_name, value, ctls) ==
    IF current_device = None
    THEN /\ controls' = ctls
         /\ lastCall' = None
         /\ UNCHANGED uiError
    ELSE /\ controls' = [ctls EXCEPT ![control_name].label = value]
         /\ \E outcome \in SetCtrlOutcomes :
               lastCall' = Some([device |-> current_device[1], name |-> control_name,
                                 value |-> value, outcome |-> outcome])
         /\ UNCHANGED uiError

\* QSlider.setValue(v) on the slider of control n: the value is bounded to the
\* range, and valueChanged (hence update_control) fires only if it changed.
SliderSetValue(n, v) ==
    LET bounded == Clamp(v, controls[n].min, controls[n].max)
    IN IF bounded = controls[n].value
       THEN /\ lastCall' = None
            /\ UNCHANGED <<controls, uiError>>
       ELSE UpdateControl(n, bounded, [controls EXCEPT ![n].value = bounded])

\* The user drags the slider of a control to another value.
SliderMove ==
    /\ upc = "idle"
    /\ \E n \in DOMAIN controls :
          \E v \in controls[n].min .. controls[n].max :
              /\ v # controls[n].value
              /\ SliderSetValue(n, v)
              /\ UiEvent("slider", n)
    /\ UNCHANGED <<threadVars, workerVars, everStarted, camVars, listing, upc>>
    /\ UNCHANGED heldNone

\* The user presses a control's reset button: s.setValue(d), line 629.
ResetPress ==
    /\ upc = "idle"
    /\ \E n \in DOMAIN controls :
          /\ SliderSetValue(n, controls[n].default)
          /\ UiEvent("reset", n)
    /\ UNCHANGED <<threadVars, workerVars, everStarted, camVars, listing, upc>>
    /\ UNCHANGED heldNone

\* ------------------------------------------------------- UI: transform flags
\* The lines of one iteration of the loop after its test: the read, the
\* transforms, apply_effect, the conversion and the emit.
IterationLines == {"l49", "l54", "l56", "l60", "l62", "l64", "l68", "l71", "l75"}

uiRest == <<everStarted, camVars, ctlVars, upc, uiEvent, tick>>

\* change_effect: currentTextChanged fires when another entry is chosen
ChangeEffect ==
    /\ upc = "idle"
    /\ \E effect_name \in EffectNames :
          /\ EffectMap(effect_name) # effect
          /\ effect' = EffectMap(effect_name)
    /\ UNCHANGED <<device, running, mirror, flip, rotate, workerVars, uiRest>>
    /\ heldNone' = (wpc \in IterationLines /\ (heldNone \/ effect' = "none"))

\* toggle_mirror: the checkable button's new state
ToggleMirror ==
    /\ upc = "idle"
    /\ mirror' = ~mirror
    /\ UNCHANGED <<device, running, flip, rotate, effect, workerVars, uiRest>>
    /\ UNCHANGED heldNone

\* toggle_flip
ToggleFlip ==
    /\ upc = "idle"
    /\ flip' = ~flip
    /\ UNCHANGED <<device, running, mirror, rotate, effect, workerVars, uiRest>>
    /\ UNCHANGED heldNone

\* rotate_video
RotateVideo ==
    /\ upc = "idle"
    /\ rotate' = (rotate + 90) % 360
    /\ UNCHANGED <<device, running, mirror, flip, effect, workerVars, uiRest>>
    /\ UNCHANGED heldNone

\* --------------------------------------------------------- VideoThread.run
wRest == <<everStarted, camVars, ctlVars, upc, uiEvent, tick>>
flags == <<mirror, flip, rotate, effect>>

\* lines 38-39
RunEntry ==
    /\ wpc = "l38"
    /\ wpc' = IF device = None THEN "idle" ELSE "l41"
    /\ UNCHANGED <<threadVars, cap, ret, frame, echk, unemitted, sink, wRest>>
    /\ UNCHANGED heldNone

\* lines 41-44: open the device self.device names now; a failed open ends the run
OpenCapture ==
    /\ wpc = "l41"
    /\ \E opened \in BOOLEAN :
          IF opened THEN cap' = device /\ wpc' = "l46"
                    ELSE cap' = None /\ wpc' = "idle"
    /\ UNCHANGED <<threadVars, ret, frame, echk, unemitted, sink, wRest>>
    /\ UNCHANGED heldNone

\* line 46
SetRunning ==
    /\ wpc = "l46"
    /\ running' = TRUE
    /\ wpc' = "l48"
    /\ UNCHANGED <<device, flags, cap, ret, frame, echk, unemitted, sink, wRest>>
    /\ UNCHANGED heldNone

\* line 48: while self.running
LoopCheck ==
    /\ wpc = "l48"
    /\ wpc' = IF running THEN "l49" ELSE "l77"
    /\ UNCHANGED <<threadVars, cap, ret, frame, echk, unemitted, sink, wRest>>
    /\ heldNone' = (running /\ effect = "none")

\* A loop that gives up on the first failed read.
ReadFrameStopsOnFailure ==
    /\ wpc = "l49"
    /\ \E ok \in BOOLEAN :
          /\ ret' = Some(ok)
          /\ IF ok THEN wpc' = "l54" /\ unemitted' = unemitted + 1
                   ELSE wpc' = "l77" /\ UNCHANGED unemitted
    /\ frame' = << >>
    /\ UNCHANGED <<threadVars, cap, echk, sink, wRest>>
    /\ UNCHANGED heldNone

\* lines 49-51: cap.read(); a failed read goes back to the loop test
ReadFrame ==
    /\ wpc = "l49"
    /\ \E ok \in BOOLEAN :
          /\ ret' = Some(ok)
          /\ IF ok THEN wpc' = "l54" /\ unemitted' = unemitted + 1
                   ELSE wpc' = "l48" /\ UNCHANGED unemitted
    /\ frame' = << >>
    /\ UNCHANGED <<threadVars, cap, echk, sink, wRest>>
    /\ UNCHANGED heldNone

\* lines 54-55
MirrorStep ==
    /\ wpc = "l54"
    /\ frame' = IF mirror THEN Append(frame, "mirror") ELSE frame
    /\ wpc' = "l56"
    /\ UNCHANGED <<threadVars, cap, ret, echk, unemitted, sink, wRest>>
    /\ UNCHANGED heldNone

\* lines 56-57
FlipStep ==
    /\ wpc = "l56"
    /\ frame' = IF flip THEN Append(frame, "flip") ELSE frame
    /\ wpc' = "l60"
    /\ UNCHANGED <<threadVars, cap, ret, echk, unemitted, sink, wRest>>
    /\ UNCHANGED heldNone

\* One comparison of the if/elif chain of lines 60-65: self.rotate is read at
\* each comparison.
RotateCheck(at, degrees, tag, next) ==
    /\ wpc = at
    /\ IF rotate = degrees
       THEN frame' = Append(frame, tag) /\ wpc' = "l68"
       ELSE frame' = frame /\ wpc' = next
    /\ echk' = IF wpc' = "l68" THEN 1 ELSE 0
    /\ UNCHANGED <<threadVars, cap, ret, unemitted, sink, wRest>>
    /\ UNCHANGED heldNone

Rotate90 == RotateCheck("l60", 90, "rot90", "l62")
Rotate180 == RotateCheck("l62", 180, "rot180", "l64")
Rotate270 == RotateCheck("l64", 270, "rot270", "l68")

\* apply_effect, one comparison of its if/elif chain (lines 81-119) per step:
\* self.effect is read at each comparison; when none matches, line 125 returns
\* the frame as it came.
ApplyEffectCheck ==
    /\ wpc = "l68"
    /\ IF effect = EffectOrder[echk]
       THEN frame' = Append(frame, EffectOrder[echk]) /\ wpc' = "l71" /\ echk' = 0
       ELSE IF echk < Len(EffectOrder)
       THEN frame' = frame /\ wpc' = "l68" /\ echk' = echk + 1
       ELSE frame' = Append(frame, "none") /\ wpc' = "l71" /\ echk' = 0
    /\ UNCHANGED <<threadVars, cap, ret, unemitted, sink, wRest>>
    /\ UNCHANGED heldNone

\* A loop that hands the BGR frame to the display.
ConvertColorSkipped ==
    /\ wpc = "l71"
    /\ frame' = frame
    /\ wpc' = "l75"
    /\ UNCHANGED <<threadVars, cap, ret, echk, unemitted, sink, wRest>>
    /\ UNCHANGED heldNone

\* line 71
ConvertColor ==
    /\ wpc = "l71"
    /\ frame' = Append(frame, "rgb")
    /\ wpc' = "l75"
    /\ UNCHANGED <<threadVars, cap, ret, echk, unemitted, sink, wRest>>
    /\ UNCHANGED heldNone

\* lines 72-75: change_pixmap.emit(qt_image.copy())
EmitFrame ==
    /\ wpc = "l75"
    /\ sink' = Some([copy |-> TRUE])
    /\ unemitted' = unemitted - 1
    /\ frame' = << >>
    /\ wpc' = "l48"
    /\ UNCHANGED <<threadVars, cap, ret, echk, wRest>>
    /\ heldNone' = FALSE

\* line 77, then run() returns
ReleaseCapture ==
    /\ wpc = "l77"
    /\ cap' = None
    /\ ret' = None
    /\ wpc' = "idle"
    /\ UNCHANGED <<threadVars, frame, echk, unemitted, sink, wRest>>
    /\ UNCHANGED heldNone

\* run() up to and including its loop
Capture ==
    \/ RunEntry \/ OpenCapture \/ SetRunning \/ LoopCheck \/ ReadFrame
    \/ MirrorStep \/ FlipStep \/ Rotate90 \/ Rotate180 \/ Rotate270
    \/ ApplyEffectCheck \/ ConvertColor \/ EmitFrame

Worker == Capture \/ ReleaseCapture

\* ------------------------------------------------- a client of VideoThread
\* VideoThread's own interface (set_device, start, stop) called by a client at
\* any moment, without the window's guards. The client is the thread that
\* constructed the VideoThread, before detect_cameras has run.
ApiSetDevice ==
    /\ upc = "init"
    /\ \E n \in DeviceNums : device' = Some(DeviceNumOf(DevicePath(n)))
    /\ UNCHANGED <<running, flags, workerVars, wRest>>
    /\ UNCHANGED heldNone

ApiStart ==
    /\ upc = "init"
    /\ ThreadStart
    /\ UNCHANGED <<threadVars, cap, ret, frame, echk, unemitted, sink, camVars,
                   ctlVars, upc, uiEvent, tick>>
    /\ UNCHANGED heldNone

\* stop(), line 129, up to the wait of line 130
ApiStop ==
    /\ upc = "init"
    /\ running' = FALSE
    /\ upc' = "api_wait"
    /\ UiEvent("stop", "")
    /\ UNCHANGED <<device, flags, workerVars, everStarted, camVars, ctlVars>>
    /\ UNCHANGED heldNone

\* stop(), the return of wait()
ApiStopReturn ==
    /\ upc = "api_wait"
    /\ ThreadFinished
    /\ upc' = "init"
    /\ UNCHANGED <<threadVars, workerVars, everStarted, camVars, ctlVars, uiEvent, tick>>
    /\ UNCHANGED heldNone

\* ------------------------------------------------------------------- Spec
\* The application's camera life cycle: enumeration, camera selection, closing
\* the window, and the capture worker. The slider and reset handlers touch only
\* self.controls and the transform handlers only mirror, flip, rotate and
\* effect; no handler of this specification reads either, and they run against
\* the worker in SpecControls and SpecTransform.
Next ==
    \/ DetectCameras \/ SelectCamera \/ StartCamera \/ StartCameraAfterStop
    \/ CloseEvent \/ CloseEventAfterStop
    \/ Worker

Spec == Init /\ [][Next]_vars

\* The control handlers, with the worker capturing from the camera
\* detect_cameras selected. Nothing here clears running, so the loop is never
\* left and line 77 is out of reach.
NextControls ==
    \/ DetectCameras \/ StartCamera
    \/ SliderMove \/ ResetPress
    \/ Capture

SpecControls == Init /\ [][NextControls]_vars

\* The transform handlers against the worker capturing from the camera
\* detect_cameras selected. Nothing here clears running, so the loop is never
\* left and line 77 is out of reach.
NextTransform ==
    \/ DetectOneCamera \/ StartCamera
    \/ ChangeEffect \/ ToggleMirror \/ ToggleFlip \/ RotateVideo
    \/ Capture

SpecTransform == Init /\ [][NextTransform]_vars

\* VideoThread driven through its own interface. The worker is an operating
\* system thread and wait() returns once the run has ended: both are weakly fair.
NextThread ==
    \/ ApiSetDevice \/ ApiStart \/ ApiStop \/ ApiStopReturn
    \/ Worker

SpecThread == Init /\ [][NextThread]_vars /\ WF_vars(Worker) /\ WF_vars(ApiStopReturn)

\* load_controls' parsing applied to one control line of any shape.
ControlTypes == {"int", "bool", "menu"}
ControlLines ==
    {RangeLine("brightness", t, mn, mx, st, df, val, ia, pl) :
        t \in ControlTypes, mn \in Nums, mx \in Nums, st \in BOOLEAN,
        df \in Nums, val \in Nums, ia \in BOOLEAN, pl \in BOOLEAN}
    \cup
    {ShortLine("brightness", t, df, val, ia, pl) :
        t \in ControlTypes, df \in Nums, val \in Nums, ia \in BOOLEAN, pl \in BOOLEAN}

\* load_controls has the output of the query in hand and is about to parse it.
InitParse ==
    /\ device = None /\ running = FALSE
    /\ mirror = FALSE /\ flip = FALSE /\ rotate = 0 /\ effect = "none"
    /\ wpc = "idle" /\ cap = None /\ ret = None /\ frame = << >> /\ echk = 0
    /\ unemitted = 0 /\ sink = None /\ everStarted = FALSE /\ heldNone = FALSE
    /\ current_device = Some(DevicePath(0)) /\ controls = NoControls
    /\ camera_combo = <<DeviceItem(0)>> /\ combo_index = 1
    /\ listing \in {<<line>> : line \in ControlLines}
    /\ lastCall = None /\ uiError = FALSE
    /\ enumerated = "some"
    /\ upc = "load_controls" /\ uiEvent = [op |-> "detect_cameras", ctl |-> ""]
    /\ tick = TRUE

\* parse_and_create_controls(result.stdout), line 500
ParseListing ==
    /\ upc = "load_controls"
    /\ controls' = ParseAndCreateControls(listing)
    /\ upc' = "start_camera"
    /\ UNCHANGED <<threadVars, workerVars, everStarted, camVars, listing, lastCall,
                   uiError, uiEvent, tick>>
    /\ UNCHANGED heldNone

SpecParse == InitParse /\ [][ParseListing]_vars

\* ================================================================ claims
LoopLines == {"l48", "l49", "l54", "l56", "l60", "l62", "l64", "l68", "l71", "l75"}
PipelineLines == LoopLines \ {"l48", "l49"}
\* start_camera reaches set_device() and start() in this step.
StartIssued == upc \in {"start_camera", "switch_wait"} /\ upc' = "idle"
\* A slider or reset event was handled in this step.
ControlEvent == tick' # tick /\ uiEvent'.op \in {"slider", "reset"}

\* C1: when start_camera issues start() for the newly selected device, the prior
\* run of the worker has left its loop and released its capture handle.
C1_SwitchStopsPriorWorker ==
    [][StartIssued => (wpc \notin LoopLines /\ cap = None)]_vars

\* C2: every stop() called after start() returns, and when it returns the run
\* has ended, the capture handle is released and running is False.
C2_StopReturnsWithCaptureReleased ==
    /\ [](upc = "api_wait" /\ everStarted => <>(upc = "init"))
    /\ [][(upc = "api_wait" /\ upc' = "init") =>
            (wpc' = "idle" /\ cap' = None /\ running' = FALSE)]_vars

\* C3: a failed read emits nothing, keeps the handle and goes back to the loop
\* test; the loop is left only from the loop test with running cleared, the loop
\* test goes on to the next read while running is set and to the release
\* otherwise, and the release closes the handle.
C3_ReadFailureIsTransient ==
    [][ /\ (wpc = "l49" /\ wpc' # "l49" /\ ret' = Some(FALSE)) =>
             (wpc' = "l48" /\ sink' = sink /\ unemitted' = unemitted
              /\ cap # None /\ cap' = cap)
        /\ (wpc \in LoopLines /\ wpc' \notin LoopLines) =>
             (wpc = "l48" /\ ~running /\ wpc' = "l77")
        /\ (wpc = "l48" /\ wpc' # "l48") => wpc' = (IF running THEN "l49" ELSE "l77")
        /\ (wpc = "l77" /\ wpc' # "l77") => (wpc' = "idle" /\ cap' = None)
      ]_vars

\* Every read failed so far, the cleared flag was seen, the handle is about to
\* be released.
C3_Witness == wpc = "l77" /\ ret = Some(FALSE) /\ sink = None /\ cap # None

StageRank(tag) ==
    CASE tag = "mirror" -> 1
      [] tag = "flip" -> 2
      [] tag \in {"rot90", "rot180", "rot270"} -> 3
      [] tag \in Effects -> 4
      [] tag = "rgb" -> 5
      [] OTHER -> 0
RotateTag(degrees) ==
    CASE degrees = 90 -> "rot90" [] degrees = 180 -> "rot180"
      [] degrees = 270 -> "rot270" [] OTHER -> "rot0"
Stages(f) == {f[i] : i \in 1 .. Len(f)}
\* mirror, flip, rotation, one effect, colour conversion: in that order, the
\* first three optional.
StagesInOrder(f) ==
    /\ \A i, j \in 1 .. Len(f) : i < j => StageRank(f[i]) < StageRank(f[j])
    /\ \A i \in 1 .. Len(f) : StageRank(f[i]) > 0
    /\ \E i \in 1 .. Len(f) : StageRank(f[i]) = 4
    /\ Len(f) > 0 /\ f[Len(f)] = "rgb"

\* C4: every image emitted went through mirror (if set), flip (if set), the
\* rotation of the rotate value, one effect and the RGB conversion, in that
\* order, and is emitted once, as a copy; a frame read leaves the pipeline only
\* by being emitted.
C4_FixedStageOrder ==
    [][ /\ (wpc = "l75" /\ wpc' # "l75") =>
             (StagesInOrder(frame) /\ sink' = Some([copy |-> TRUE])
              /\ unemitted = 1 /\ unemitted' = 0 /\ wpc' = "l48")
        /\ (wpc \in PipelineLines /\ wpc' \notin PipelineLines) => wpc = "l75"
        /\ (unemitted' # unemitted) =>
             ((wpc = "l49" /\ wpc' = "l54" /\ unemitted' = 1) \/ wpc = "l75")
        /\ (sink' # sink) => wpc = "l75"
        /\ (wpc = "l54" /\ wpc' # "l54") => (frame' = IF mirror THEN <<"mirror">> ELSE << >>)
        /\ (wpc = "l56" /\ wpc' # "l56") => (("flip" \in Stages(frame')) <=> flip)
        /\ (wpc \in {"l60", "l62", "l64"} /\ frame' # frame) =>
             (frame' = Append(frame, RotateTag(rotate)) /\ StageRank(RotateTag(rotate)) = 3)
      ]_vars

\* An image was emitted and the next one, with every stage applied, is about to be.
C4_Witness ==
    /\ wpc = "l75" /\ sink = Some([copy |-> TRUE])
    /\ frame = <<"mirror", "flip", "rot270", "sepia", "rgb">>

\* The query's output has been parsed.
Parsed == upc # "load_controls"
LineName(line) == line[1].s

\* C5: a line carrying the marker "inactive" or "flags=has-payload" yields no
\* control, whichever shape it has.
C5_MarkedLinesYieldNoControl ==
    Parsed => \A i \in 1 .. Len(listing) :
        (IsInactive(listing[i]) \/ HasPayload(listing[i])) =>
            LineName(listing[i]) \notin DOMAIN controls

\* C6: every control listed has min <= current <= max and min <= default <= max;
\* a control made from a (bool) line has the bounds [0, 1] and its current and
\* default are 0 or 1.
C6_ControlsWithinBounds ==
    Parsed => \A i \in 1 .. Len(listing) :
        LineName(listing[i]) \in DOMAIN controls =>
            LET c == controls[LineName(listing[i])]
            IN /\ c.min <= c.value /\ c.value <= c.max
               /\ c.min <= c.default /\ c.default <= c.max
               /\ HasBoolType(listing[i]) =>
                    (c.min = 0 /\ c.max = 1 /\ c.value \in {0, 1} /\ c.default \in {0, 1})

\* C7: every press of a control's reset button issues set-ctrl <name>=<default>,
\* and a second press in a row issues the same call as the first.
C7_ResetReappliesDefault ==
    [][(tick' # tick /\ uiEvent'.op = "reset") =>
          /\ lastCall' # None
          /\ lastCall'[1].name = uiEvent'.ctl
          /\ lastCall'[1].value = controls[uiEvent'.ctl].default
          /\ (uiEvent = uiEvent') =>
                (/\ lastCall # None
                 /\ lastCall'[1].name = lastCall[1].name
                 /\ lastCall'[1].value = lastCall[1].value)
      ]_vars

\* C8: handling a slider or reset event never lets an exception out, whatever
\* the set-ctrl call did; it leaves the device choice, the worker and the set
\* of controls with their ranges as they were, queries nothing back, and every
\* slider move issues its call with the value the slider shows.
C8_UpdateControlNeverRaises ==
    [][ControlEvent =>
          /\ uiError' = FALSE
          /\ upc' = "idle"
          /\ <<threadVars, workerVars, everStarted, camVars, listing>>' =
                <<threadVars, workerVars, everStarted, camVars, listing>>
          /\ DOMAIN controls' = DOMAIN controls
          /\ \A n \in DOMAIN controls :
                /\ controls'[n].min = controls[n].min
                /\ controls'[n].max = controls[n].max
                /\ controls'[n].default = controls[n].default
                /\ n # uiEvent'.ctl => controls'[n] = controls[n]
          /\ (uiEvent'.op = "slider") =>
                /\ lastCall' # None
                /\ lastCall'[1].name = uiEvent'.ctl
                /\ lastCall'[1].device = current_device[1]
                /\ lastCall'[1].value = controls'[uiEvent'.ctl].value
                /\ lastCall'[1].value # controls[uiEvent'.ctl].value
      ]_vars

\* A slider move whose set-ctrl call failed has been handled and the window
\* takes events again.
C8_Witness ==
    /\ uiEvent.op = "slider" /\ upc = "idle" /\ ~uiError
    /\ lastCall # None /\ lastCall[1].outcome = "error"

\* C9: when the enumeration failed or found nothing, the combo holds one entry
\* carrying no device, no exception escaped, and with that entry selected no
\* device is current, no control is loaded and the worker was never started.
C9_NoCameraNoCapture ==
    enumerated \in {"none", "failed"} =>
        /\ Len(camera_combo) = 1 /\ camera_combo[1].data = None
        /\ camera_combo[1].kind =
              (IF enumerated = "failed" THEN "Error detecting cameras"
                                        ELSE "No cameras detected")
        /\ combo_index = 1
        /\ upc \in {"idle", "closed"}
        /\ current_device = None /\ controls = NoControls
        /\ ~everStarted /\ wpc = "idle" /\ cap = None /\ device = None
        /\ ~uiError

\* The enumeration failed and change_camera has run for the placeholder.
C9_Witness ==
    /\ enumerated = "failed" /\ uiEvent.op = "detect_cameras"
    /\ combo_index = 1 /\ upc = "idle"

\* C10: stop() on a thread never started clears running, finds wait() ready to
\* return at once, and returns having opened, released and emitted nothing and
\* leaving the device and the transform flags as they were.
C10_StopNeverStartedIsNoOp ==
    [][ /\ (~everStarted /\ upc = "init" /\ upc' = "api_wait") =>
             (/\ running' = FALSE /\ ThreadFinished'
              /\ <<device, flags, workerVars, everStarted>>' =
                    <<device, flags, workerVars, everStarted>>)
        /\ (~everStarted /\ upc = "api_wait" /\ upc' # "api_wait") =>
             (/\ upc' = "init" /\ running' = FALSE /\ wpc' = "idle" /\ cap' = None
              /\ sink' = None
              /\ <<device, flags, workerVars, everStarted>>' =
                    <<device, flags, workerVars, everStarted>>)
      ]_vars

\* stop() was called on a thread never started, and has returned.
C10_Witness ==
    uiEvent.op = "stop" /\ upc = "init" /\ ~everStarted /\ ~running /\ wpc = "idle"

\* The operation apply_effect applied to the frame in this step, if it returned.
EffectReturned == wpc = "l68" /\ wpc' = "l71"
EffectApplied == frame'[Len(frame')]

\* C11: the effect apply_effect applies to a frame is a value self.effect held
\* at some moment of that frame's iteration (the value it holds at the moment of
\* application, or 'none' if it held 'none' since the loop test); in particular
\* the frame comes back unchanged only if self.effect was 'none' at some moment
\* of the iteration.
C11_EffectAppliedWasHeld ==
    [][EffectReturned =>
          /\ EffectApplied \in {effect} \cup (IF heldNone THEN {"none"} ELSE {})
          /\ (EffectApplied = "none" => heldNone)]_vars


\* No handler of the window is between a device selection and the end of
\* start_camera.
NoSwitchInProgress == upc = "idle"

\* C12: whenever the worker holds an open capture handle while no switch is in
\* progress, the handle is on the device current_device names.
C12_HandleIsOnSelectedDevice ==
    (cap # None /\ NoSwitchInProgress) =>
        (current_device # None /\ cap = Some(DeviceNumOf(current_device[1])))

\* C13: once closeEvent has accepted the close, running is False and the worker
\* holds no open capture handle, now and at every later moment.
C13_ClosedMeansCaptureStopped ==
    upc = "closed" => (~running /\ cap = None)

====
